---------------------------- MODULE Spec2Model ----------------------------
(***************************************************************************)
(* A state-machine model of the page scripts of the Fortify Alliances      *)
(* site: src/script.js (navigation menu, services tabs, preload overlay,   *)
(* viewport section observer) and src/animations.js (AnimationSystem).     *)
(*                                                                         *)
(* The state is the part of the document the scripts read and write (the   *)
(* class lists of the elements they touch, the contents of the shared      *)
(* display area), the closure variables of the modules, the browser's      *)
(* timer table and the observation targets of the IntersectionObservers.   *)
(* Every event handler is one action.  Variables whose comment says        *)
(* "history" record what a handler did; no handler reads them.             *)
(***************************************************************************)
EXTENDS Integers, Sequences, FiniteSets, TLC

VARIABLES
    menu,         \* class flags of #hamburger-icon, #nav-overlay, nav, body
    menuHist,     \* history: the last two calls of toggleMenu / closeMenu
    menuEvent,    \* history: the last menu event delivered
    hero,         \* #heroLanding exists
    heroTop,      \* heroLandingSection.offsetTop, px
    heroHeight,   \* heroLandingSection.offsetHeight, px
    scrollY,      \* window.scrollY, in half pixels
    navShrink,    \* nav holds 'nav-shrink'
    navOp,        \* history: the last navbar event, "layout" after a reflow
    vsectActive,  \* the .vsect-block elements holding 'vsect-active'
    lastBatch,    \* history: the last batch given to handleIntersection
    timers,       \* the browser's pending setTimeout callbacks, oldest first
    overlay,      \* the .preload-overlay node: in the document?, its classes
    loaded,       \* the window load event has been delivered
    sinceLoad,    \* history: ms since the load event, while preload timers pend
    preloadLog,   \* history: the preload steps run, each with its time
    inView,       \* the animated elements holding 'in-view'
    inDoc,        \* the animated elements that are in the document
    animLive,     \* new AnimationSystem() has run
    observed,     \* the observation targets of each IntersectionObserver
    lastSig,      \* history: isIntersecting of each element's last entry
    forced,       \* history: elements a tabs timer marked since that entry
    animOp,       \* history: the last AnimationSystem operation
    domReady,     \* the DOMContentLoaded listener of the tabs module has run
    innerWidth,   \* window.innerWidth
    isDesktop,    \* closure variable isDesktop
    resizeTimer,  \* closure variable resizeTimer: a timer handle, 0 = undefined
    tabActive,    \* the .services-tab elements holding 'active'
    contentActive,\* the .services-tab-content panels holding 'active'
    desktopArea,  \* the children of .services-content-desktop, in order
    dataTab,      \* data-tab of each tab (data-content of panel p is p)
    areaFirst,    \* .services-content-desktop precedes the tab containers
    sinceResize,  \* history: ms since the last resize event, -1 once checked
    lastOp,       \* history: what the last tabs handler did
    narrowSnap    \* history: the accordion flags at the last switch to wide

menuVars == <<menu, menuHist, menuEvent>>
navVars == <<hero, heroTop, heroHeight, scrollY, navShrink, navOp>>
sectVars == <<vsectActive, lastBatch>>
preloadVars == <<overlay, loaded, sinceLoad, preloadLog>>
tabsVars == <<domReady, innerWidth, isDesktop, resizeTimer, tabActive,
              contentActive, desktopArea, dataTab, areaFirst, sinceResize,
              lastOp, narrowSnap>>
animVars == <<inDoc, animLive, observed, lastSig, animOp>>
vars == <<menuVars, navVars, sectVars, timers, preloadVars, inView, forced, tabsVars,
          animVars>>

\* What the actions of one component leave alone.
nonMenuVars == <<navVars, sectVars, timers, preloadVars, inView, forced, tabsVars,
                 animVars>>
nonSectVars == <<menuVars, navVars, timers, preloadVars, inView, forced, tabsVars,
                 animVars>>
nonPreloadVars == <<menuVars, navVars, sectVars, inView, forced, tabsVars,
                    animVars>>
nonTabsVars == <<menuVars, navVars, sectVars, preloadVars, animVars>>
nonAnimVars == <<menuVars, navVars, sectVars, preloadVars, timers, tabsVars>>
nonNavVars == <<menuVars, sectVars, timers, preloadVars, inView, forced,
                tabsVars, animVars>>

(***************************************************************************)
(* 1. NAVIGATION MENU SYSTEM (src/script.js 29-81)                         *)
(***************************************************************************)

\* How many calls the history keeps (the most recent first).
MenuHistLen == 3

Min(a, b) == IF a <= b THEN a ELSE b

MenuFlags == [icon : BOOLEAN, overlay : BOOLEAN, nav : BOOLEAN, body : BOOLEAN]

toggleMenuOnlyOverlay(m) == [m EXCEPT !.overlay = ~m.overlay]

\* toggleMenu(): classList.toggle on the icon, the overlay, nav and body.
toggleMenu(m) ==
    [icon |-> ~m.icon, overlay |-> ~m.overlay, nav |-> ~m.nav, body |-> ~m.body]

closeMenuNoGuard(m) == toggleMenu(m)

\* closeMenu(): toggles only when the overlay holds 'active'.
closeMenu(m) == IF m.overlay THEN toggleMenu(m) ELSE m

\* One call of a menu function: the flags change and the call is logged.
MenuCall(fn, ev) ==
    /\ menu' = IF fn = "toggleMenu" THEN toggleMenu(menu) ELSE closeMenu(menu)
    /\ menuHist' = SubSeq(<<[fn |-> fn, before |-> menu]>> \o menuHist,
                          1, Min(Len(menuHist) + 1, MenuHistLen))
    /\ menuEvent' = ev

\* An event whose listener returns without calling a menu function.
MenuNoCall(ev) ==
    /\ menuEvent' = ev
    /\ UNCHANGED <<menu, menuHist>>

Keys == {"Escape", "Enter", "a"}

\* hamburgerBtn click listener.
HamburgerClick ==
    /\ MenuCall("toggleMenu", [type |-> "click", on |-> "hamburger"])
    /\ UNCHANGED nonMenuVars

\* click listener of each '.nav-overlay-menu a'.
MenuLinkClick ==
    /\ MenuCall("closeMenu", [type |-> "click", on |-> "link"])
    /\ UNCHANGED nonMenuVars

KeyDownAnyKey ==
    /\ \E key \in Keys :
         MenuCall("closeMenu", [type |-> "keydown", on |-> key])
    /\ UNCHANGED nonMenuVars

\* document keydown listener.
KeyDown ==
    /\ \E key \in Keys :
         IF key = "Escape"
         THEN MenuCall("closeMenu", [type |-> "keydown", on |-> key])
         ELSE MenuNoCall([type |-> "keydown", on |-> key])
    /\ UNCHANGED nonMenuVars

\* navOverlay click listener; the event target is the overlay or a child.
OverlayClick ==
    /\ \E target \in {"overlay", "menu"} :
         IF target = "overlay"
         THEN MenuCall("closeMenu", [type |-> "click", on |-> target])
         ELSE MenuNoCall([type |-> "click", on |-> target])
    /\ UNCHANGED nonMenuVars

MenuInit ==
    /\ menu \in MenuFlags
    /\ menuHist = <<>>
    /\ menuEvent = [type |-> "none", on |-> "none"]

MenuNext == HamburgerClick \/ MenuLinkClick \/ KeyDown \/ OverlayClick

(***************************************************************************)
(* 2. NAVBAR SCROLL EFFECTS (src/script.js 95-130)                         *)
(*                                                                         *)
(* offsetTop and offsetHeight are whole pixels; window.scrollY may fall    *)
(* between two pixels and is kept in half pixels, so that the halfway      *)
(* point of a hero of odd height is a value scrollY can take.              *)
(***************************************************************************)

MaxTop == 2
MaxHeight == 3
MaxScroll == 9

Tops == 0 .. MaxTop
Heights == 0 .. MaxHeight
Scrolls == 0 .. MaxScroll

heroHalfwayWhole(top, height) == 2 * top + 2 * height

\* heroHalfway = offsetTop + offsetHeight * 0.5, in half pixels.
heroHalfway(top, height) == 2 * top + height

\* handleNavbarScroll(): whether nav holds 'nav-shrink' afterwards, given
\* whether it did, the hero's place and size and window.scrollY.
handleNavbarScroll(shrunk, top, height, y) ==
    IF ~hero THEN shrunk
    ELSE LET scrollPosition == y
         IN  scrollPosition >= heroHalfway(top, height)

\* window scroll listener, after the window scrolled to position y.
Scroll(y) ==
    /\ scrollY' = y
    /\ navShrink' = handleNavbarScroll(navShrink, heroTop, heroHeight, y)
    /\ navOp' = "scroll"
    /\ UNCHANGED <<hero, heroTop, heroHeight, nonNavVars>>

\* window resize listener of the navbar module, after the reflow that gave
\* the hero its new place and size.
NavResize(top, height) ==
    /\ heroTop' = (IF hero THEN top ELSE heroTop)
    /\ heroHeight' = (IF hero THEN height ELSE heroHeight)
    /\ navShrink' = handleNavbarScroll(navShrink, top, height, scrollY)
    /\ navOp' = "resize"
    /\ UNCHANGED <<hero, scrollY, nonNavVars>>

\* window DOMContentLoaded listener of the navbar module.
NavLoaded ==
    /\ navOp = "none"
    /\ navShrink' = handleNavbarScroll(navShrink, heroTop, heroHeight, scrollY)
    /\ navOp' = "loaded"
    /\ UNCHANGED <<hero, heroTop, heroHeight, scrollY, nonNavVars>>

\* A reflow with no event (content arriving above or inside the hero): the
\* hero moves or grows and no listener runs.
Reflow(top, height) ==
    /\ hero
    /\ <<top, height>> # <<heroTop, heroHeight>>
    /\ heroTop' = top
    /\ heroHeight' = height
    /\ navOp' = "layout"
    /\ UNCHANGED <<hero, scrollY, navShrink, nonNavVars>>

NavInit ==
    /\ hero \in BOOLEAN
    /\ heroTop \in (IF hero THEN Tops ELSE {0})
    /\ heroHeight \in (IF hero THEN Heights ELSE {0})
    /\ scrollY \in Scrolls
    /\ navShrink \in BOOLEAN
    /\ navOp = "none"

NavNext ==
    \/ NavLoaded
    \/ \E y \in Scrolls : Scroll(y)
    \/ \E top \in Tops, height \in Heights : NavResize(top, height)
    \/ \E top \in Tops, height \in Heights : Reflow(top, height)


(***************************************************************************)
(* 5. VIEWPORT SECTION OBSERVER (src/script.js 344-377)                    *)
(***************************************************************************)

NumBlocks == 3
MaxBatch == 2

blocks == 1 .. NumBlocks

\* intersectionRatio in percent; the callback compares it with 0.7.
SectRatio == 70
Ratios == {0, 70, 71}

\* The entries the observer can report: a target intersects exactly when
\* its ratio is above 0.
SectEntries ==
    { [target |-> b, isIntersecting |-> (r > 0), ratio |-> r] :
        b \in blocks, r \in Ratios }

SeqsUpTo(S, n) == UNION { [1 .. k -> S] : k \in 1 .. n }

Qualifies(entry) == entry.isIntersecting /\ entry.ratio > SectRatio

handleEntryNoClear(active, entry) ==
    IF Qualifies(entry)
    THEN active \cup {entry.target}
    ELSE active \ {entry.target}

\* The body of entries.forEach in handleIntersection.
handleEntry(active, entry) ==
    IF Qualifies(entry)
    THEN {entry.target}
    ELSE active \ {entry.target}

RECURSIVE handleIntersectionBackwards(_, _)
handleIntersectionBackwards(active, entries) ==
    IF entries = <<>>
    THEN active
    ELSE handleEntry(handleIntersectionBackwards(active, Tail(entries)),
                     Head(entries))

\* handleIntersection(entries): the entries in the order supplied.
RECURSIVE handleIntersection(_, _)
handleIntersection(active, entries) ==
    IF entries = <<>>
    THEN active
    ELSE handleIntersection(handleEntry(active, Head(entries)), Tail(entries))

\* One callback of the section observer.
SectCallback ==
    /\ blocks # {}
    /\ \E entries \in SeqsUpTo(SectEntries, MaxBatch) :
         /\ vsectActive' = handleIntersection(vsectActive, entries)
         /\ lastBatch' = entries
    /\ UNCHANGED nonSectVars

SectInit ==
    /\ vsectActive = {}
    /\ lastBatch = <<>>

(***************************************************************************)
(* The timer table: setTimeout / clearTimeout (used by src/script.js       *)
(* 178, 260-261, 275, 314-326).  A timer is [id, fn, arg, left]: left is   *)
(* the time in ms until it is due, and id is its handle when the caller    *)
(* keeps the handle setTimeout returns, 0 when the caller discards it.     *)
(* A handle is the least number no pending timer has: the handle of a      *)
(* timer that has run or was cleared may name a later timer, which no      *)
(* caller can observe, since the only kept handle is overwritten by the    *)
(* setTimeout that follows its clearTimeout.  Time does not pass a due     *)
(* timer, and of the due timers the oldest runs first; other events may    *)
(* still be delivered before a due timer runs.                             *)
(***************************************************************************)

\* A handle no pending timer has.
FreshId(pending) ==
    CHOOSE n \in 1 .. Len(pending) + 1 :
        \A i \in 1 .. Len(pending) : pending[i].id # n

\* The timers of `pending` that are due no later than `delay` from now.
Earlier(pending, delay) == SelectSeq(pending, LAMBDA t : t.left <= delay)
Later(pending, delay) == SelectSeq(pending, LAMBDA t : t.left > delay)

\* setTimeout(fn, delay) on the table `pending`, which is kept in the order
\* in which its timers will run: by due time, then by age.
setTimeout(pending, keep, fn, arg, delay) ==
    Earlier(pending, delay)
      \o <<[id |-> IF keep THEN FreshId(pending) ELSE 0,
            fn |-> fn, arg |-> arg, left |-> delay]>>
      \o Later(pending, delay)

clearTimeoutNothing(pending, id) == pending

\* clearTimeout(id): no effect when no pending timer has the handle.
clearTimeout(pending, id) ==
    SelectSeq(pending, LAMBDA t : ~(id # 0 /\ t.id = id))

Due(i) ==
    /\ i \in 1 .. Len(timers)
    /\ timers[i].left = 0
    /\ \A j \in 1 .. i - 1 : timers[j].left > 0

\* The timer that runs next, when one is due.
NextDue == CHOOSE i \in 1 .. Len(timers) : Due(i)

Runs(fn) == (\E i \in 1 .. Len(timers) : Due(i)) /\ timers[NextDue].fn = fn

\* The table with the timer that runs removed.
Popped ==
    [i \in 1 .. Len(timers) - 1 |->
       IF i < NextDue THEN timers[i] ELSE timers[i + 1]]

Elapse(pending, d) ==
    [i \in 1 .. Len(pending) |-> [pending[i] EXCEPT !.left = @ - d]]

PreloadFns == {"fade-out", "hidden", "remove"}

PreloadPending == \E i \in 1 .. Len(timers) : timers[i].fn \in PreloadFns

(***************************************************************************)
(* 4. PRELOAD OVERLAY (src/script.js 305-329)                              *)
(***************************************************************************)

FadeDelay == 500
HideDelay == 800
RemoveDelay == 1800

scheduleFadeOnly(pending) ==
    setTimeout(pending, FALSE, "fade-out", 0, FadeDelay)

\* The three setTimeout calls of the load listener.
schedulePreload(pending) ==
    setTimeout(setTimeout(setTimeout(pending, FALSE, "fade-out", 0, FadeDelay),
                          FALSE, "hidden", 0, HideDelay),
               FALSE, "remove", 0, RemoveDelay)

\* window load listener: returns at once when the document has no overlay.
Load ==
    /\ ~loaded
    /\ loaded' = TRUE
    /\ sinceLoad' = 0
    /\ timers' = IF overlay.inDoc THEN schedulePreload(timers) ELSE timers
    /\ UNCHANGED <<overlay, preloadLog, nonPreloadVars>>

PreloadStep(fn) ==
    /\ Runs(fn)
    /\ timers' = Popped
    /\ preloadLog' = Append(preloadLog, [step |-> fn, at |-> sinceLoad])
    /\ UNCHANGED <<loaded, sinceLoad, nonPreloadVars>>

\* +500ms: preloadOverlay.classList.add('fade-out').
FadeOut ==
    /\ PreloadStep("fade-out")
    /\ overlay' = [overlay EXCEPT !.classes = @ \cup {"fade-out"}]

\* +800ms: preloadOverlay.classList.add('hidden').
Hide ==
    /\ PreloadStep("hidden")
    /\ overlay' = [overlay EXCEPT !.classes = @ \cup {"hidden"}]

\* +1800ms: preloadOverlay.remove().
Remove ==
    /\ PreloadStep("remove")
    /\ overlay' = [overlay EXCEPT !.inDoc = FALSE]

PreloadInit ==
    /\ overlay \in [inDoc : BOOLEAN, classes : {{}}]
    /\ loaded = FALSE
    /\ sinceLoad = 0
    /\ preloadLog = <<>>


(***************************************************************************)
(* ANIMATION SYSTEM (src/animations.js)                                    *)
(*                                                                         *)
(* The animated elements are 1 .. NumElems; element e matches the selector *)
(* of exactly one of the four observers, Kind(e).  The .animate-repeat     *)
(* elements are children of the services panels and stay in the document;  *)
(* the other elements may be removed from it and inserted again.           *)
(***************************************************************************)

NumElems == 4
MaxEntries == 2

Elems == 1 .. NumElems

\* animateObserver, animateRepeatObserver, lineObserver, lineRepeatObserver,
\* each named by the selector observeElements() gives it.
Observers == <<"animate", "animate-repeat", "line", "line-repeat">>

ObserverNames == { Observers[i] : i \in DOMAIN Observers }

Kind(e) == Observers[((e - 1) % Len(Observers)) + 1]

OneShot == { e \in Elems : Kind(e) \in {"animate", "line"} }
Repeatable == { e \in Elems : Kind(e) \in {"animate-repeat", "line-repeat"} }
Fixed == { e \in Elems : Kind(e) = "animate-repeat" }

\* The .animate-repeat children of services panel p.
Kids(p) == { e \in Fixed : ((e - 1) \div Len(Observers)) + 1 = p }

Unobserved == [o \in ObserverNames |-> {}]

\* observeElements(): each observer observes what its selector finds.
observeElements(obs, doc) ==
    [o \in ObserverNames |-> obs[o] \cup { e \in doc : Kind(e) = o }]

\* The four disconnect() calls of refresh() and destroy().
disconnectAll(obs) == [o \in ObserverNames |-> {}]

refreshKeep(obs, doc) == observeElements(obs, doc)

\* refresh(): the observation targets afterwards.
refresh(obs, doc) == observeElements(disconnectAll(obs), doc)

\* destroy(): the observation targets afterwards.
destroy(obs) == disconnectAll(obs)

\* The entries one callback of observer o may receive: targets it observes,
\* and no intersection for a target outside the document.
AnimEntries(o) ==
    { en \in [target : observed[o], isIntersecting : BOOLEAN] :
        en.isIntersecting => en.target \in inDoc }

AnimBatches(o) == SeqsUpTo(AnimEntries(o), MaxEntries)

\* handleAnimateEntries(entries): the elements holding 'in-view' and the
\* targets of animateObserver afterwards.
RECURSIVE handleAnimateEntries(_, _, _)
handleAnimateEntries(entries, marked, watching) ==
    IF entries = <<>> THEN [marked |-> marked, watching |-> watching]
    ELSE LET entry == Head(entries)
         IN  IF entry.isIntersecting
             THEN handleAnimateEntries(Tail(entries),
                                       marked \cup {entry.target},
                                       watching \ {entry.target})
             ELSE handleAnimateEntries(Tail(entries), marked, watching)

\* handleLineEntries(entries), likewise for lineObserver.
RECURSIVE handleLineEntries(_, _, _)
handleLineEntries(entries, marked, watching) ==
    IF entries = <<>> THEN [marked |-> marked, watching |-> watching]
    ELSE LET entry == Head(entries)
         IN  IF entry.isIntersecting
             THEN handleLineEntries(Tail(entries),
                                    marked \cup {entry.target},
                                    watching \ {entry.target})
             ELSE handleLineEntries(Tail(entries), marked, watching)

RECURSIVE handleAnimateRepeatEntriesAddOnly(_, _)
handleAnimateRepeatEntriesAddOnly(entries, marked) ==
    IF entries = <<>> THEN marked
    ELSE LET entry == Head(entries)
         IN  IF entry.isIntersecting
             THEN handleAnimateRepeatEntriesAddOnly(Tail(entries),
                                                    marked \cup {entry.target})
             ELSE handleAnimateRepeatEntriesAddOnly(Tail(entries), marked)

\* handleAnimateRepeatEntries(entries): the elements holding 'in-view'
\* afterwards.
RECURSIVE handleAnimateRepeatEntries(_, _)
handleAnimateRepeatEntries(entries, marked) ==
    IF entries = <<>> THEN marked
    ELSE LET entry == Head(entries)
         IN  IF entry.isIntersecting
             THEN handleAnimateRepeatEntries(Tail(entries),
                                             marked \cup {entry.target})
             ELSE handleAnimateRepeatEntries(Tail(entries),
                                             marked \ {entry.target})

\* handleLineRepeatEntries(entries), likewise for lineRepeatObserver.
RECURSIVE handleLineRepeatEntries(_, _)
handleLineRepeatEntries(entries, marked) ==
    IF entries = <<>> THEN marked
    ELSE LET entry == Head(entries)
         IN  IF entry.isIntersecting
             THEN handleLineRepeatEntries(Tail(entries),
                                          marked \cup {entry.target})
             ELSE handleLineRepeatEntries(Tail(entries),
                                          marked \ {entry.target})

Targets(entries) == { entries[i].target : i \in DOMAIN entries }

\* The history of signals after a callback with these entries.
Signalled(entries) ==
    [e \in Elems |->
       IF e \in Targets(entries)
       THEN LET last == CHOOSE i \in DOMAIN entries :
                          /\ entries[i].target = e
                          /\ \A j \in DOMAIN entries :
                                entries[j].target = e => j <= i
            IN  IF entries[last].isIntersecting THEN "in" ELSE "out"
       ELSE lastSig[e]]

\* The history of an AnimationSystem operation: its name and, for refresh()
\* and destroy(), whether the operation before it was the same call.
NoAnimOp == [name |-> "none", again |-> FALSE]

AnimOp(name) ==
    [name |-> name,
     again |-> name \in {"refresh", "destroy"} /\ animOp.name = name]

\* new AnimationSystem(): init() calls observeElements().
Construct ==
    /\ ~animLive
    /\ animLive' = TRUE
    /\ observed' = observeElements(observed, inDoc)
    /\ animOp' = AnimOp("construct")
    /\ UNCHANGED <<inDoc, lastSig, inView, forced, nonAnimVars>>

\* A callback of animateObserver.
AnimateCallback(entries) ==
    /\ animLive
    /\ entries \in AnimBatches("animate")
    /\ LET r == handleAnimateEntries(entries, inView, observed["animate"])
       IN  /\ inView' = r.marked
           /\ observed' = [observed EXCEPT !["animate"] = r.watching]
    /\ animOp' = AnimOp("animate")
    /\ UNCHANGED <<inDoc, animLive, lastSig, forced, nonAnimVars>>

\* A callback of lineObserver.
LineCallback(entries) ==
    /\ animLive
    /\ entries \in AnimBatches("line")
    /\ LET r == handleLineEntries(entries, inView, observed["line"])
       IN  /\ inView' = r.marked
           /\ observed' = [observed EXCEPT !["line"] = r.watching]
    /\ animOp' = AnimOp("line")
    /\ UNCHANGED <<inDoc, animLive, lastSig, forced, nonAnimVars>>

\* A callback of animateRepeatObserver.
AnimateRepeatCallback ==
    /\ animLive
    /\ \E entries \in AnimBatches("animate-repeat") :
          /\ inView' = handleAnimateRepeatEntries(entries, inView)
          /\ lastSig' = Signalled(entries)
          /\ forced' = forced \ Targets(entries)
    /\ animOp' = AnimOp("animate-repeat")
    /\ UNCHANGED <<inDoc, animLive, observed, nonAnimVars>>

\* A callback of lineRepeatObserver.
LineRepeatCallback ==
    /\ animLive
    /\ \E entries \in AnimBatches("line-repeat") :
          /\ inView' = handleLineRepeatEntries(entries, inView)
          /\ lastSig' = Signalled(entries)
          /\ forced' = forced \ Targets(entries)
    /\ animOp' = AnimOp("line-repeat")
    /\ UNCHANGED <<inDoc, animLive, observed, nonAnimVars>>

\* animationSystem.refresh()
Refresh ==
    /\ animLive
    /\ observed' = refresh(observed, inDoc)
    /\ animOp' = AnimOp("refresh")
    /\ UNCHANGED <<inDoc, animLive, lastSig, inView, forced, nonAnimVars>>

\* animationSystem.destroy()
Destroy ==
    /\ animLive
    /\ observed' = destroy(observed)
    /\ animOp' = AnimOp("destroy")
    /\ UNCHANGED <<inDoc, animLive, lastSig, inView, forced, nonAnimVars>>

\* The page inserts element e into the document.
AddElement(e) ==
    /\ e \notin inDoc
    /\ inDoc' = inDoc \cup {e}
    /\ animOp' = AnimOp("add")
    /\ UNCHANGED <<animLive, observed, lastSig, inView, forced, nonAnimVars>>

\* The page removes element e from the document.
RemoveElement(e) ==
    /\ e \in inDoc \ Fixed
    /\ inDoc' = inDoc \ {e}
    /\ animOp' = AnimOp("remove")
    /\ UNCHANGED <<animLive, observed, lastSig, inView, forced, nonAnimVars>>

\* No element holds 'in-view' in the markup.
MarksInit ==
    /\ inView = {}
    /\ forced = {}

AnimInit ==
    /\ inDoc \in { d \in SUBSET Elems : Fixed \subseteq d }
    /\ animLive = FALSE
    /\ observed = Unobserved
    /\ lastSig = [e \in Elems |-> "none"]
    /\ animOp = NoAnimOp

AnimNext ==
    \/ Construct
    \/ \E entries \in AnimBatches("animate") : AnimateCallback(entries)
    \/ \E entries \in AnimBatches("line") : LineCallback(entries)
    \/ AnimateRepeatCallback
    \/ LineRepeatCallback
    \/ Refresh
    \/ Destroy
    \/ \E e \in Elems : AddElement(e)
    \/ \E e \in Elems : RemoveElement(e)


(***************************************************************************)
(* 3. SERVICES TABS FUNCTIONALITY (src/script.js 146-291)                  *)
(*                                                                         *)
(* Tab t sits in container t with content panel t; panel p carries         *)
(* data-content p and has the .animate-repeat children Kids(p).  A node    *)
(* of class services-tab-content is [content, active, kidsIn]: its         *)
(* data-content, its 'active' flag and which of its .animate-repeat        *)
(* children (named as those of the panel it copies) hold 'in-view'.        *)
(* A triggerAnimations timer has arg p > 0 when it captured panel p,       *)
(* arg 0 when it captured the duplicate now in the shared area, and        *)
(* arg -1 when the duplicate it captured has left the document.            *)
(***************************************************************************)

NumTabs == 2
MaxAnimTimers == 2

Breakpoint == 768
ResizeDelay == 250
AnimDelay == 50
InitialDelay == 200

serviceTabs == 1 .. NumTabs
Widths == {767, 768}
TabSteps == {50}

\* data-tab of every tab names its own panel, or the last tab names a
\* panel the document does not have.
DataTabs ==
    { [t \in serviceTabs |-> t],
      [t \in serviceTabs |-> IF t = NumTabs THEN 0 ELSE t] }

PanelNode(p) ==
    [content |-> p, active |-> p \in contentActive,
     kidsIn |-> Kids(p) \cap inView]

NoNode == [in |-> "none", at |-> 0]

\* The services-tab-content nodes of the document in document order.
DocOrder ==
    LET panels == [i \in 1 .. NumTabs |-> [in |-> "panel", at |-> i]]
        clones == [i \in 1 .. Len(desktopArea) |-> [in |-> "area", at |-> i]]
    IN  IF areaFirst THEN clones \o panels ELSE panels \o clones

Node(ref) == IF ref.in = "panel" THEN PanelNode(ref.at) ELSE desktopArea[ref.at]

\* document.querySelector: the first matching node in document order.
querySelector(Match(_)) ==
    LET Hit(ref) == Match(Node(ref))
        hits == SelectSeq(DocOrder, Hit)
    IN  IF hits = <<>> THEN NoNode ELSE hits[1]

\* document.querySelector('.services-tab-content.active')
QueryActive == querySelector(LAMBDA n : n.active)

QueryContentOrFirst(targetTab) ==
    IF querySelector(LAMBDA n : n.content = targetTab) = NoNode
    THEN querySelector(LAMBDA n : TRUE)
    ELSE querySelector(LAMBDA n : n.content = targetTab)

\* document.querySelector(`[data-content="${targetTab}"]`)
QueryContent(targetTab) == querySelector(LAMBDA n : n.content = targetTab)

\* node.cloneNode(true)
cloneNode(n) == n

\* The triggerAnimations timers pending; a click that would add one beyond
\* MaxAnimTimers is not taken.
AnimPending == Len(SelectSeq(timers, LAMBDA t : t.fn = "anim"))

\* desktopContentArea.innerHTML = '': the timers that captured a duplicate
\* of the shared area now hold a node outside the document.
Detached(pending) ==
    [i \in 1 .. Len(pending) |->
       IF pending[i].fn = "anim" /\ pending[i].arg = 0
       THEN [pending[i] EXCEPT !.arg = -1]
       ELSE pending[i]]

\* The history of a handler: its name; for a tab click the tab and whether
\* the tab held 'active' (narrow) or its target matched a panel (wide); for
\* a resize event whether a resize timer was pending; for the resize
\* re-check wasDesktop and whether it called handleLayout.
NoOp == [name |-> "none", tab |-> 0, open |-> FALSE, was |-> FALSE,
         ran |-> FALSE]

NoSnap == [taken |-> FALSE, tabs |-> {}, contents |-> {}]

\* handleLayout() finds an active panel to duplicate, given the value it has
\* just stored in isDesktop.
LayoutCopies(wide) == wide /\ QueryActive # NoNode

\* handleLayout(): the contents of the shared area afterwards.
handleLayout(wide) ==
    IF LayoutCopies(wide)
    THEN <<cloneNode(Node(QueryActive))>>
    ELSE desktopArea

triggerAnimationsRestart(pending, arg) ==
    setTimeout(SelectSeq(pending, LAMBDA t : t.fn # "anim"), FALSE, "anim", arg,
               AnimDelay)

\* triggerAnimations(content): one timer whose handle is discarded.
triggerAnimations(pending, arg) ==
    setTimeout(pending, FALSE, "anim", arg, AnimDelay)

handleMobileTabKeepOthers(tabs, contents, tab) ==
    IF tab \notin tabs
    THEN [tabs |-> tabs \cup {tab}, contents |-> contents \cup {tab},
          opening |-> TRUE]
    ELSE [tabs |-> tabs \ {tab}, contents |-> contents \ {tab},
          opening |-> FALSE]

\* handleMobileTab(tab, content) on the 'active' flags of tabs and panels.
handleMobileTab(tabs, contents, tab) ==
    LET isOpening == tab \notin tabs
        others == serviceTabs \ {tab}
    IN  IF isOpening
        THEN [tabs |-> (tabs \ others) \cup {tab},
              contents |-> (contents \ others) \cup {tab},
              opening |-> TRUE]
        ELSE [tabs |-> (tabs \ others) \ {tab},
              contents |-> (contents \ others) \ {tab},
              opening |-> FALSE]

\* Click on tab t while isDesktop is false.
MobileTabClick(t) ==
    /\ domReady /\ ~isDesktop
    /\ LET r == handleMobileTab(tabActive, contentActive, t)
       IN  /\ r.opening => AnimPending < MaxAnimTimers
           /\ tabActive' = r.tabs
           /\ contentActive' = r.contents
           /\ timers' = IF r.opening THEN triggerAnimations(timers, t)
                        ELSE timers
           /\ lastOp' = [NoOp EXCEPT !.name = "mobileTab", !.tab = t,
                            !.open = (t \in tabActive)]
    /\ UNCHANGED <<domReady, innerWidth, isDesktop, resizeTimer, desktopArea,
                   dataTab, areaFirst, sinceResize, narrowSnap, inView,
                   forced, nonTabsVars>>

\* handleDesktopTab: the 'active' flags of the tabs afterwards.
handleDesktopTab(tabs, tab) == (tabs \ serviceTabs) \cup {tab}

\* Click on tab t while isDesktop is true.
DesktopTabClick(t) ==
    /\ domReady /\ isDesktop
    /\ QueryContent(dataTab[t]) # NoNode => AnimPending < MaxAnimTimers
    /\ tabActive' = handleDesktopTab(tabActive, t)
    /\ LET matchingContent == QueryContent(dataTab[t])
       IN  IF matchingContent # NoNode
           THEN LET clone == [cloneNode(Node(matchingContent))
                                EXCEPT !.active = TRUE]
                IN  /\ desktopArea' = <<clone>>
                    /\ timers' = triggerAnimations(Detached(timers), 0)
           ELSE UNCHANGED <<desktopArea, timers>>
    /\ lastOp' = [NoOp EXCEPT !.name = "desktopTab", !.tab = t,
                     !.open = (QueryContent(dataTab[t]) # NoNode)]
    /\ UNCHANGED <<domReady, innerWidth, isDesktop, resizeTimer,
                   contentActive, dataTab, areaFirst, sinceResize, narrowSnap,
                   inView, forced, nonTabsVars>>

\* The callback of triggerAnimations: every .animate-repeat child of the
\* captured content loses 'in-view' and gets it back.
AnimTimer ==
    /\ Runs("anim")
    /\ timers' = Popped
    /\ LET arg == timers[NextDue].arg
           touched == IF arg > 0 THEN Kids(arg) ELSE {}
       IN  /\ inView' = (inView \ touched) \cup touched
           /\ forced' = forced \cup touched
           /\ desktopArea' = IF arg = 0
                             THEN [i \in 1 .. Len(desktopArea) |->
                                     [desktopArea[i] EXCEPT
                                        !.kidsIn = Kids(desktopArea[i].content)]]
                             ELSE desktopArea
    /\ lastOp' = [NoOp EXCEPT !.name = "anim"]
    /\ UNCHANGED <<domReady, innerWidth, isDesktop, resizeTimer, tabActive,
                   contentActive, dataTab, areaFirst, sinceResize, narrowSnap,
                   nonTabsVars>>

DebounceCancelOnly(pending, handle) == clearTimeout(pending, handle)

\* The two statements of the resize listener on the timer table.
Debounce(pending, handle) ==
    setTimeout(clearTimeout(pending, handle), TRUE, "resize", 0, ResizeDelay)

\* window resize listener of the tabs module.
Resize ==
    /\ domReady
    /\ \E w \in Widths : innerWidth' = w
    /\ timers' = Debounce(timers, resizeTimer)
    /\ resizeTimer' = FreshId(clearTimeout(timers, resizeTimer))
    /\ sinceResize' = 0
    /\ lastOp' = [NoOp EXCEPT !.name = "resize",
                     !.open = (\E i \in 1 .. Len(timers) :
                                  timers[i].fn = "resize")]
    /\ UNCHANGED <<domReady, isDesktop, tabActive, contentActive, desktopArea,
                   dataTab, areaFirst, narrowSnap, inView, forced,
                   nonTabsVars>>

\* wasDesktop !== isDesktop
ModeChanged(wasDesktop, now) == wasDesktop # now

\* The debounced callback of the resize listener.  The history keeps the
\* accordion flags from a switch to wide until the switch back.
ResizeCheck ==
    /\ Runs("resize")
    /\ LET wasDesktop == isDesktop
           now == innerWidth >= Breakpoint
           ran == ModeChanged(wasDesktop, now)
       IN  /\ isDesktop' = now
           /\ desktopArea' = IF ran THEN handleLayout(now) ELSE desktopArea
           /\ timers' = IF ran /\ LayoutCopies(now) THEN Detached(Popped)
                        ELSE Popped
           /\ lastOp' = [NoOp EXCEPT !.name = "resizeCheck", !.was = wasDesktop,
                            !.ran = ran]
           /\ narrowSnap' = IF ~wasDesktop /\ now
                            THEN [taken |-> TRUE, tabs |-> tabActive,
                                  contents |-> contentActive]
                            ELSE IF wasDesktop /\ ~now THEN NoSnap
                            ELSE narrowSnap
    /\ sinceResize' = -1
    /\ UNCHANGED <<domReady, innerWidth, resizeTimer, tabActive, contentActive,
                   dataTab, areaFirst, inView, forced, nonTabsVars>>

\* DOMContentLoaded listener: isDesktop, handleLayout(), the 200ms timer.
DOMContentLoaded ==
    /\ ~domReady
    /\ domReady' = TRUE
    /\ isDesktop' = (innerWidth >= Breakpoint)
    /\ desktopArea' = handleLayout(innerWidth >= Breakpoint)
    /\ timers' = setTimeout(timers, FALSE, "initial", 0, InitialDelay)
    /\ lastOp' = [NoOp EXCEPT !.name = "init"]
    /\ UNCHANGED <<innerWidth, resizeTimer, tabActive, contentActive, dataTab,
                   areaFirst, sinceResize, narrowSnap, inView, forced,
                   nonTabsVars>>

\* The 200ms callback: 'in-view' on the children of the active panel (narrow)
\* or of the first panel of the shared area (wide).
InitialAnim ==
    /\ Runs("initial")
    /\ timers' = Popped
    /\ LET mobileContent == QueryActive
           mobile == mobileContent # NoNode /\ ~isDesktop
           desktop == desktopArea # <<>> /\ isDesktop
           touched == IF mobile /\ mobileContent.in = "panel"
                      THEN Kids(mobileContent.at) ELSE {}
       IN  /\ inView' = inView \cup touched
           /\ forced' = forced \cup touched
           /\ desktopArea' =
                [i \in 1 .. Len(desktopArea) |->
                   IF \/ mobile /\ mobileContent = [in |-> "area", at |-> i]
                      \/ desktop /\ i = 1
                   THEN [desktopArea[i] EXCEPT
                           !.kidsIn = Kids(desktopArea[i].content)]
                   ELSE desktopArea[i]]
    /\ lastOp' = [NoOp EXCEPT !.name = "initialAnim"]
    /\ UNCHANGED <<domReady, innerWidth, isDesktop, resizeTimer, tabActive,
                   contentActive, dataTab, areaFirst, sinceResize, narrowSnap,
                   nonTabsVars>>

\* Time passes by d ms: no pending timer is overrun.
Tick(d) ==
    /\ timers # <<>>
    /\ \A i \in 1 .. Len(timers) : timers[i].left >= d
    /\ timers' = Elapse(timers, d)
    /\ sinceLoad' = IF PreloadPending THEN sinceLoad + d ELSE sinceLoad
    /\ sinceResize' = IF sinceResize >= 0 /\ sinceResize <= ResizeDelay
                      THEN sinceResize + d ELSE sinceResize
    /\ UNCHANGED <<overlay, loaded, preloadLog, menuVars, navVars, sectVars,
                   inView,
                   forced, animVars, domReady, innerWidth, isDesktop, resizeTimer, tabActive,
                   contentActive, desktopArea, dataTab, areaFirst, lastOp,
                   narrowSnap>>

PreloadSteps == {10, 100}

PreloadTick == \E d \in PreloadSteps : Tick(d)

TabsTick == \E d \in TabSteps : Tick(d)

PreloadNext == Load \/ FadeOut \/ Hide \/ Remove \/ PreloadTick

TabsInit ==
    /\ domReady = FALSE
    /\ innerWidth \in Widths
    /\ isDesktop = FALSE
    /\ resizeTimer = 0
    /\ tabActive \in { a \in SUBSET serviceTabs : Cardinality(a) <= 1 }
    /\ contentActive = tabActive
    /\ desktopArea = <<>>
    /\ dataTab \in DataTabs
    /\ areaFirst \in BOOLEAN
    /\ sinceResize = -1
    /\ lastOp = NoOp
    /\ narrowSnap = NoSnap

TabsNext ==
    \/ DOMContentLoaded
    \/ \E t \in serviceTabs : MobileTabClick(t)
    \/ \E t \in serviceTabs : DesktopTabClick(t)
    \/ Resize
    \/ ResizeCheck
    \/ AnimTimer
    \/ InitialAnim
    \/ TabsTick

(***************************************************************************)
(* Specifications                                                          *)
(***************************************************************************)

\* Each specification starts one component from any of its initial states and
\* keeps the others, which its actions never touch, in their idle state.
MenuIdle ==
    /\ menu = [icon |-> FALSE, overlay |-> FALSE, nav |-> FALSE, body |-> FALSE]
    /\ menuHist = <<>>
    /\ menuEvent = [type |-> "none", on |-> "none"]

NavIdle ==
    /\ hero = FALSE
    /\ heroTop = 0
    /\ heroHeight = 0
    /\ scrollY = 0
    /\ navShrink = FALSE
    /\ navOp = "none"

SectIdle ==
    /\ vsectActive = {}
    /\ lastBatch = <<>>

PreloadIdle ==
    /\ overlay = [inDoc |-> FALSE, classes |-> {}]
    /\ loaded = FALSE
    /\ sinceLoad = 0
    /\ preloadLog = <<>>

TabsIdle ==
    /\ domReady = FALSE
    /\ innerWidth = Breakpoint
    /\ isDesktop = FALSE
    /\ resizeTimer = 0
    /\ tabActive = {}
    /\ contentActive = {}
    /\ desktopArea = <<>>
    /\ dataTab = [t \in serviceTabs |-> t]
    /\ areaFirst = FALSE
    /\ sinceResize = -1
    /\ lastOp = NoOp
    /\ narrowSnap = NoSnap

AnimIdle ==
    /\ inDoc = Elems
    /\ animLive = FALSE
    /\ observed = Unobserved
    /\ lastSig = [e \in Elems |-> "none"]
    /\ animOp = NoAnimOp

\* The AnimationSystem constructed before the tabs module's listener runs.
AnimBuilt ==
    /\ inDoc = Elems
    /\ animLive = TRUE
    /\ observed = observeElements(Unobserved, Elems)
    /\ lastSig = [e \in Elems |-> "none"]
    /\ animOp = [NoAnimOp EXCEPT !.name = "construct"]

Rest == NavIdle /\ MarksInit /\ timers = <<>>

InitNav ==
    /\ MenuIdle /\ SectIdle /\ PreloadIdle /\ TabsIdle /\ AnimIdle
    /\ NavInit /\ MarksInit /\ timers = <<>>

InitMenu == MenuInit /\ SectIdle /\ PreloadIdle /\ TabsIdle /\ AnimIdle /\ Rest
InitMenuClosed ==
    MenuIdle /\ SectIdle /\ PreloadIdle /\ TabsIdle /\ AnimIdle /\ Rest
InitSect == MenuIdle /\ SectInit /\ PreloadIdle /\ TabsIdle /\ AnimIdle /\ Rest
InitPreload ==
    MenuIdle /\ SectIdle /\ PreloadInit /\ TabsIdle /\ AnimIdle /\ Rest
InitTabs == MenuIdle /\ SectIdle /\ PreloadIdle /\ TabsInit /\ AnimIdle /\ Rest
InitAnim == MenuIdle /\ SectIdle /\ PreloadIdle /\ TabsIdle /\ AnimInit /\ Rest
InitRepeat ==
    MenuIdle /\ SectIdle /\ PreloadIdle /\ TabsInit /\ AnimBuilt /\ Rest

\* The tabs module at a fixed window width, with the repeatable observers.
RepeatNext ==
    \/ DOMContentLoaded
    \/ \E t \in serviceTabs : MobileTabClick(t)
    \/ \E t \in serviceTabs : DesktopTabClick(t)
    \/ AnimTimer
    \/ InitialAnim
    \/ TabsTick
    \/ AnimateRepeatCallback
    \/ LineRepeatCallback

SpecMenu == InitMenu /\ [][MenuNext]_vars
SpecMenuClosed == InitMenuClosed /\ [][MenuNext]_vars
SpecNav == InitNav /\ [][NavNext]_vars
SpecSect == InitSect /\ [][SectCallback]_vars
SpecPreload == InitPreload /\ [][PreloadNext]_vars
SpecTabs == InitTabs /\ [][TabsNext]_vars
SpecAnim == InitAnim /\ [][AnimNext]_vars
SpecRepeat == InitRepeat /\ [][RepeatNext]_vars

(***************************************************************************)
(* Properties                                                              *)
(***************************************************************************)

\* The flags as they were after the i-th most recent call of the history.
MenuAfter(i) == IF i = 1 THEN menu ELSE menuHist[i - 1].before

\* C7: closeMenu called while the overlay does not hold 'active' leaves the
\* four flags as they were, and two consecutive calls of toggleMenu, from
\* any flags, leave the four flags as they were before the first.
C7_CloseNoopToggleTwice ==
    /\ \A i \in 1 .. Len(menuHist) :
         (menuHist[i].fn = "closeMenu" /\ ~menuHist[i].before.overlay)
            => MenuAfter(i) = menuHist[i].before
    /\ \A i \in 1 .. Len(menuHist) - 1 :
         (menuHist[i].fn = "toggleMenu" /\ menuHist[i + 1].fn = "toggleMenu")
            => MenuAfter(i) = menuHist[i + 1].before

\* Two toggles from flags that are not all equal, then a close while closed.
C7_Witness ==
    /\ Len(menuHist) = 3
    /\ menuHist[3].fn = "toggleMenu" /\ menuHist[2].fn = "toggleMenu"
    /\ menuHist[3].before.icon /\ ~menuHist[3].before.overlay
    /\ menuHist[1].fn = "closeMenu" /\ ~menuHist[1].before.overlay

AtMostOneSectActive == Cardinality(vsectActive) <= 1

NoneQualifies(batch) == \A i \in 1 .. Len(batch) : ~Qualifies(batch[i])

BatchTargets(batch) == { batch[i].target : i \in 1 .. Len(batch) }

\* C6 as stated: after a batch at most one block holds 'vsect-active', and
\* none holds it when no entry of the batch qualifies.
C6_Original ==
    /\ AtMostOneSectActive
    /\ (lastBatch # <<>> /\ NoneQualifies(lastBatch)) => vsectActive = {}

\* C6 as amended: after a batch at most one block holds 'vsect-active', and
\* when no entry of the batch qualifies no target of the batch holds it (a
\* block that is not a target of the batch keeps the marker it had).
C6_AtMostOneAndTargetsCleared ==
    /\ AtMostOneSectActive
    /\ (lastBatch # <<>> /\ NoneQualifies(lastBatch))
          => vsectActive \cap BatchTargets(lastBatch) = {}

\* A batch without a qualifying entry after which a block outside the batch
\* still holds the marker.
C6_Witness ==
    /\ lastBatch # <<>>
    /\ NoneQualifies(lastBatch)
    /\ vsectActive # {}
    /\ vsectActive \cap BatchTargets(lastBatch) = {}

\* The tabs whose own panel holds 'active' too.
ActivePairs == tabActive \cap contentActive

\* C3: in narrow mode at most one tab/panel pair holds 'active'; after a
\* narrow-mode click nothing outside that pair holds it; and after a click
\* on a tab that held 'active' no tab and no panel holds it.
C3_NarrowAtMostOnePair ==
    /\ (domReady /\ ~isDesktop) => Cardinality(ActivePairs) <= 1
    /\ lastOp.name = "mobileTab" =>
          /\ tabActive = contentActive
          /\ Cardinality(tabActive) <= 1
          /\ lastOp.open => (tabActive = {} /\ contentActive = {})

\* A click has closed the open tab.
C3_Witness ==
    /\ lastOp.name = "mobileTab"
    /\ lastOp.open
    /\ ~isDesktop
    /\ ActivePairs = {}

\* The last handler was the re-check that switched from narrow to wide.
SwitchedToWide ==
    lastOp.name = "resizeCheck" /\ ~lastOp.was /\ lastOp.ran /\ isDesktop

\* C4 as stated: after a switch from narrow to wide with an accordion panel
\* active, the shared area holds exactly one panel, a duplicate of the panel
\* active in the accordion (it carries that panel's data-content).
C4_Original ==
    (SwitchedToWide /\ contentActive # {}) =>
        /\ Len(desktopArea) = 1
        /\ desktopArea[1].content \in contentActive
        /\ desktopArea[1].active

\* C5 as stated: the switch back to narrow finds the 'active' flags of the
\* tabs and of the panels as they were at the switch to wide.
C5_Original ==
    [][(isDesktop /\ ~isDesktop' /\ narrowSnap.taken) =>
          /\ tabActive' = narrowSnap.tabs
          /\ contentActive' = narrowSnap.contents]_vars

IsResizeTimer(t) == t.fn = "resize"

ResizeTimers == SelectSeq(timers, IsResizeTimer)

DebounceState ==
    /\ Len(ResizeTimers) <= 1
    /\ (sinceResize >= 0) = (Len(ResizeTimers) = 1)
    /\ Len(ResizeTimers) = 1 =>
          /\ ResizeTimers[1].left = ResizeDelay - sinceResize
          /\ ResizeTimers[1].id = resizeTimer

\* C8: at most one resize timer is pending; while resize events follow each
\* other within 250ms no re-check runs, and one is pending for 250ms after
\* the last event; the re-check runs at that time, and calls handleLayout
\* only if the mode computed from the width differs from isDesktop.
C8_ResizeDebounce ==
    /\ []DebounceState
    /\ [][ResizeCheck =>
            /\ sinceResize = ResizeDelay
            /\ lastOp'.ran => (isDesktop # (innerWidth >= Breakpoint))
            /\ Len(SelectSeq(timers', IsResizeTimer)) = 0]_vars

\* A resize event has arrived while the re-check of the one before it was
\* pending: that re-check is gone and one is pending for 250ms from now.
C8_Witness ==
    /\ lastOp.name = "resize"
    /\ lastOp.open
    /\ Len(ResizeTimers) = 1
    /\ ResizeTimers[1].left = ResizeDelay
    /\ sinceResize = 0

PreloadPlan ==
    << [step |-> "fade-out", at |-> FadeDelay],
       [step |-> "hidden", at |-> HideDelay],
       [step |-> "remove", at |-> RemoveDelay] >>

IsPreloadTimer(t) == t.fn \in PreloadFns

\* The preload callbacks still pending, as (step, time at which it is due).
PreloadDue ==
    LET ts == SelectSeq(timers, IsPreloadTimer)
    IN  [i \in 1 .. Len(ts) |-> [step |-> ts[i].fn, at |-> sinceLoad + ts[i].left]]

\* The load listener found an overlay node.
OverlayAtLoad == loaded /\ (overlay.inDoc \/ preloadLog # <<>>)

PreloadState ==
    /\ ~loaded => (timers = <<>> /\ preloadLog = <<>>)
    /\ OverlayAtLoad =>
          /\ preloadLog \o PreloadDue = PreloadPlan
          /\ overlay.inDoc = (Len(preloadLog) < 3)
    /\ overlay.classes = { preloadLog[i].step : i \in 1 .. Len(preloadLog) }
                             \ {"remove"}
    /\ (loaded /\ ~OverlayAtLoad) => (PreloadDue = <<>> /\ preloadLog = <<>>)

\* C10: with an overlay node at the load event the steps run once each in
\* the order 'fade-out' (+500ms), 'hidden' (+800ms), node removed (+1800ms),
\* every step not yet run is pending for its time, and after the last the
\* node is out of the document; without an overlay node the load listener
\* schedules no timer and changes neither the overlay nor the log.
C10_PreloadSequence ==
    /\ []PreloadState
    /\ [][(~loaded /\ loaded' /\ ~overlay.inDoc)
            => UNCHANGED <<timers, overlay, preloadLog>>]_vars

\* The third step has run: the node has left the document.
C10_Witness ==
    /\ Len(preloadLog) = 3
    /\ preloadLog[3] = [step |-> "remove", at |-> RemoveDelay]
    /\ ~overlay.inDoc
    /\ overlay.classes = {"fade-out", "hidden"}

\* The callbacks of the one-shot observers, by name.
OneShotCallback(o, entries) ==
    IF o = "animate" THEN AnimateCallback(entries) ELSE LineCallback(entries)

\* C1: in both one-shot modes an element that holds the marker is no longer
\* observed, no later signal removes the marker, and no later callback adds
\* it to an element that already holds it.
C1_Original ==
    /\ [](\A e \in OneShot : e \in inView => e \notin observed[Kind(e)])
    /\ [][\A e \in OneShot : e \in inView => e \in inView']_vars
    /\ [][\A o \in {"animate", "line"} : \A entries \in AnimBatches(o) :
            OneShotCallback(o, entries) =>
               \A i \in DOMAIN entries :
                  entries[i].isIntersecting => entries[i].target \notin inView
         ]_vars

\* An element of a repeatable mode whose marker a callback wrote last.
Unforced(e) == lastSig[e] # "none" /\ e \notin forced

\* C2 as stated: a repeatable element that has had a callback holds the
\* marker exactly when its most recent entry reported it intersecting.
C2_Original ==
    \A e \in Repeatable :
       lastSig[e] # "none" => ((e \in inView) <=> (lastSig[e] = "in"))

\* C2: a repeatable element holds the marker exactly when its most recent
\* entry reported it intersecting, unless a timer of the tabs module has
\* marked it since that entry, and then it holds the marker.
C2_MarkerFollowsLastEntry ==
    \A e \in Repeatable :
       /\ Unforced(e) => ((e \in inView) <=> (lastSig[e] = "in"))
       /\ e \in forced => e \in inView

C2_Witness ==
    /\ animOp.name = "animate-repeat"
    /\ \E p \in serviceTabs : \E e \in Kids(p) :
          /\ lastSig[e] = "out"
          /\ e \notin forced
          /\ e \notin inView
          /\ p \in contentActive
    /\ \E e \in Repeatable : lastSig[e] = "in" /\ e \in inView

\* The tagged elements that are in the document, by observer.
TaggedInDoc == [o \in ObserverNames |-> { e \in inDoc : Kind(e) = o }]

\* C9: right after refresh() the observers observe exactly the tagged
\* elements of the document, right after destroy() they observe nothing,
\* and a second consecutive call of either leaves the targets as the first
\* left them.
C9_RefreshDestroy ==
    /\ [](animOp.name = "refresh" => observed = TaggedInDoc)
    /\ [](animOp.name = "destroy" => observed = Unobserved)
    /\ [][(Refresh /\ animOp.name = "refresh") => observed' = observed]_vars
    /\ [][(Destroy /\ animOp.name = "destroy") => observed' = observed]_vars

C9_Witness ==
    /\ animOp = [name |-> "refresh", again |-> TRUE]
    /\ \E e \in Elems \ inDoc : e \in inView
    /\ \E e \in inDoc \ Fixed : e \in observed[Kind(e)] /\ e \in inView

\* C11: with the hero present, after every scroll, resize or load
\* recomputation nav holds 'nav-shrink' exactly when the scroll position is
\* at least offsetTop + offsetHeight / 2, whatever it held before; with the
\* hero absent no step changes the marker.
C11_NavShrinkThreshold ==
    /\ []((hero /\ navOp \in {"scroll", "resize", "loaded"}) =>
             (navShrink <=> (scrollY >= 2 * heroTop + heroHeight)))
    /\ [][~hero => navShrink' = navShrink]_vars

C11_Witness ==
    /\ hero
    /\ navOp = "scroll"
    /\ heroHeight % 2 = 1
    /\ scrollY = 2 * heroTop + heroHeight
    /\ navShrink

\* The events after which the menu is closed, and those no listener acts on.
ClosingEvents ==
    { [type |-> "click", on |-> "link"], [type |-> "click", on |-> "overlay"],
      [type |-> "keydown", on |-> "Escape"] }

IgnoredEvents ==
    { [type |-> "click", on |-> "menu"] } \cup
    { [type |-> "keydown", on |-> key] : key \in Keys \ {"Escape"} }

\* C12: after a click on a menu link, a click on the overlay itself or an
\* Escape keydown the overlay does not hold 'active'; a click on a child of
\* the overlay that is no menu link and a keydown of another key change no
\* flag; a click on the hamburger button flips the flags.
C12_MenuTriggers ==
    /\ [](menuEvent \in ClosingEvents => ~menu.overlay)
    /\ [][menuEvent' \in IgnoredEvents => menu' = menu]_vars
    /\ [][menuEvent'.on = "hamburger" =>
            /\ menu'.overlay = ~menu.overlay
            /\ menu' = toggleMenu(menu)]_vars

\* Escape pressed while the overlay held 'active', after an ignored key.
C12_Witness ==
    /\ menuEvent = [type |-> "keydown", on |-> "Escape"]
    /\ Len(menuHist) >= 2
    /\ menuHist[1].fn = "closeMenu" /\ menuHist[1].before.overlay
    /\ menuHist[2].fn = "toggleMenu"
    /\ ~menu.overlay

\* C17: from the state in which none of the four flags is present, the icon,
\* overlay, nav and body flags are all present or all absent in every
\* state the toggle and close triggers reach.
C17_MenuLockstep ==
    /\ menu.icon = menu.overlay
    /\ menu.nav = menu.overlay
    /\ menu.body = menu.overlay

C17_Witness ==
    /\ Len(menuHist) = MenuHistLen
    /\ menuHist[1].fn = "toggleMenu" /\ menuHist[2].fn = "closeMenu"
    /\ menuHist[2].before.overlay
    /\ menu.icon /\ menu.overlay /\ menu.nav /\ menu.body

\* The step is a click on tab t handled by handleMobileTab, or by
\* handleDesktopTab (the history is looked at first: it names the handler).
NarrowClick(t) ==
    lastOp'.name = "mobileTab" /\ lastOp'.tab = t /\ MobileTabClick(t)

WideClick(t) ==
    lastOp'.name = "desktopTab" /\ lastOp'.tab = t /\ DesktopTabClick(t)

\* The data-tab of tab t is the data-content of a panel of the document.
HasPanel(t) == dataTab[t] \in serviceTabs

\* C13: after a wide-mode click on a tab whose data-tab names a panel, the
\* clicked tab is the only tab holding 'active' and the shared area holds
\* exactly one node, which is a duplicate of that panel holding 'active'.
C13_Original ==
    (lastOp.name = "desktopTab" /\ HasPanel(lastOp.tab)) =>
        /\ tabActive = {lastOp.tab}
        /\ desktopArea =
              <<[PanelNode(dataTab[lastOp.tab]) EXCEPT !.active = TRUE]>>

\* C15: a wide-mode click on a tab whose data-tab names no panel makes the
\* clicked tab the only tab holding 'active', changes neither the shared
\* area nor the timer table, and leaves the menu, the navbar, the section
\* observer and the animation system as they were.
C15_MissingPanelSkipped ==
    [][\A t \in serviceTabs :
         (WideClick(t) /\ ~HasPanel(t)) =>
            /\ tabActive' = {t}
            /\ desktopArea' = desktopArea
            /\ timers' = timers
            /\ UNCHANGED <<menuVars, navVars, sectVars, animVars, inView,
                           forced, contentActive>>]_vars

C15_Witness ==
    /\ lastOp.name = "desktopTab" /\ ~HasPanel(lastOp.tab)
    /\ tabActive = {lastOp.tab}
    /\ desktopArea # <<>>
    /\ AnimPending = 0
    /\ inView # {}

\* Each block is the target of at most one entry of the batch.
OncePerBlock(batch) ==
    \A i, j \in 1 .. Len(batch) : batch[i].target = batch[j].target => i = j

\* The position of the last qualifying entry of a batch that has one.
LastQualifying(batch) ==
    CHOOSE i \in 1 .. Len(batch) :
       /\ Qualifies(batch[i])
       /\ \A j \in 1 .. Len(batch) : Qualifies(batch[j]) => j <= i

\* C14: after a batch that names each block at most once and has a
\* qualifying entry, the block holding 'vsect-active' is exactly the target
\* of the last qualifying entry of the batch.
C14_LastQualifyingWins ==
    (lastBatch # <<>> /\ OncePerBlock(lastBatch) /\ ~NoneQualifies(lastBatch))
       => vsectActive = {lastBatch[LastQualifying(lastBatch)].target}

\* Two qualifying entries in one batch, for two blocks.
C14_Witness ==
    /\ Len(lastBatch) >= 2
    /\ OncePerBlock(lastBatch)
    /\ Qualifies(lastBatch[1]) /\ Qualifies(lastBatch[2])
    /\ vsectActive = {lastBatch[2].target}

\* The triggerAnimations timers of a timer table.
AnimTimers(pending) == SelectSeq(pending, LAMBDA t : t.fn = "anim")

\* The step adds one triggerAnimations timer, due in 50 ms, for content arg.
SchedulesOne(arg) ==
    /\ Len(AnimTimers(timers')) = Len(AnimTimers(timers)) + 1
    /\ \E i \in 1 .. Len(timers') :
          timers'[i] = [id |-> 0, fn |-> "anim", arg |-> arg, left |-> AnimDelay]

C18_ModeFlagFollowsWidth ==
    /\ []((domReady /\ Len(ResizeTimers) = 0) =>
             (isDesktop <=> (innerWidth >= Breakpoint)))
    /\ [][\A t \in serviceTabs :
            /\ NarrowClick(t) => (~isDesktop /\ ~isDesktop')
            /\ WideClick(t) => (isDesktop /\ isDesktop')]_vars

\* A click handled as a narrow-mode click at a wide width, the resize timer
\* still pending.
C18_Witness ==
    /\ lastOp.name = "mobileTab"
    /\ Len(ResizeTimers) = 1
    /\ innerWidth >= Breakpoint
    /\ ~isDesktop

\* C19: from a start in which each tab holds 'active' exactly when its own
\* panel does, in every state with the stored mode narrow a tab holds
\* 'active' exactly when the panel of its container holds 'active'.
C19_Original ==
    (domReady /\ ~isDesktop) => tabActive = contentActive

====
